---- MODULE Spec2Model ----
(***************************************************************************)
(* FB2SCI: conversion of two FB-01 sysex bank dumps into one SCI0 patch    *)
(* resource.  The model follows src/FB2SCI.cpp: main() is a straight line  *)
(* of steps (pc), each helper function is one action, files are byte       *)
(* sequences held by a path-indexed file system, and the two ifstreams are *)
(* records (path, failbit, get position).  Bytes are 0..255; C++ indices   *)
(* are 0-based and the sequences here 1-based (At/Put translate).          *)
(***************************************************************************)
EXTENDS Integers, Sequences, FiniteSets, TLC

VARIABLES
    argc,           \* number of command-line words (program name included)
    argv,           \* [1..3 -> path]: bankfile1, bankfile2, patfile
    fs,             \* file system: path -> [exists, bytes]
    input_file1,    \* ifstream of bank A: [path, fail, pos]
    input_file2,    \* ifstream of bank B
    header,         \* char header[7]
    length,         \* std::streamoff length
    answer,         \* the word read from cin by check_output_file
    data1,          \* vector<char> data1
    data2,          \* vector<char> data2
    cout,           \* the messages printed, in order (a reported size is in length)
    status,         \* <<>> while the process lives, <<code>> once it has exited
    pc,             \* position in main()
    written,        \* output operations (open, 4 writes) that succeeded
    given           \* history: the configuration the run was started with

vars == <<argc, argv, fs, input_file1, input_file2, header, length, answer,
          data1, data2, cout, status, pc, written, given>>

----------------------------------------------------------------------------
(* Program constants *)

FileLen == 6363
HeaderLen == 7
FirstPacket == 76
PacketLen == 128
(* A stride that forgets the 3 bytes between two packets. *)
PacketStrideNoSkip == PacketLen
PacketStride == 131
NumPackets == 48
ExpectedData == 6144

SigA == <<240, 67, 117, 0, 0, 0, 0>>
SigB == <<240, 67, 117, 0, 0, 0, 1>>
sciPatchHeader == <<137, 0>>
(* The separator with its two bytes in little-endian order. *)
bankSeparatorSwapped == <<205, 171>>
bankSeparator == <<171, 205>>

EXIT_FAILURE == 1
EXIT_SUCCESS == 0

(* Bounds of the model *)

NumSeeds == 2
MaxLen == 4

----------------------------------------------------------------------------
(* Helpers *)

Min(a, b) == IF a < b THEN a ELSE b
Max(a, b) == IF a > b THEN a ELSE b

At(d, i) == d[i + 1]
Put(d, i, v) == [d EXCEPT ![i + 1] = v]
Fill(n, b) == [k \in 1..n |-> b]
The(S) == CHOOSE x \in S : TRUE

PathA == "bankA.syx"
PathB == "bankB.syx"
PathOut == "patch.001"
Paths == {PathA, PathB, PathOut}

NoFile == [exists |-> FALSE, bytes |-> <<>>]
File(b) == [exists |-> TRUE, bytes |-> b]

(* The byte a test bank holds at 0-based offset i after the signature: a    *)
(* pattern in which bytes at different offsets of one packet window, and   *)
(* at offsets 3 apart, differ.                                             *)
Pattern(i, seed) == (i * 37 + seed * 101 + 5) % 256

(* The first n bytes of a bank dump carrying signature sig. *)
Content(sig, n, seed) ==
    [k \in 1..n |-> IF k <= HeaderLen THEN sig[k] ELSE Pattern(k - 1, seed)]

FlipByte(b) == IF b % 2 = 0 THEN b + 1 ELSE b - 1
FlipAt(sig, k) == [sig EXCEPT ![k] = FlipByte(@)]

(* The bank files a run may be started on. *)
ValidKinds == {<<"valid", s>> : s \in 0..(NumSeeds - 1)}
FlipKinds == {<<"flip", k>> : k \in 1..HeaderLen}
LenKinds == {<<"len", n>> : n \in {0, 3, 6, FileLen - 1, FileLen + 1}}
MissingKind == <<"missing", 0>>
BankKinds == ValidKinds \cup FlipKinds \cup LenKinds \cup {MissingKind}

BankFile(kind, sig) ==
    CASE kind[1] = "valid" -> File(Content(sig, FileLen, kind[2]))
      [] kind[1] = "flip" -> File(Content(FlipAt(sig, kind[2]), FileLen, 0))
      [] kind[1] = "len" -> File(Content(sig, kind[2], 0))
      [] OTHER -> NoFile

OldPatch == File(<<1, 2, 3>>)

(* Values an uninitialized char array may hold. *)
GarbageBytes == {0, 204}
GarbageHeaders == {Fill(HeaderLen, 0), Fill(HeaderLen, 204), SigA}

(* The file system a configuration describes. *)
InitialFs(g) ==
    [p \in Paths |->
        CASE p = PathA -> BankFile(g.a, SigA)
          [] p = PathB -> BankFile(g.b, SigB)
          [] OTHER -> IF g.old THEN OldPatch ELSE NoFile]

----------------------------------------------------------------------------
(* std::ifstream, as far as the program uses it.  A read that finds fewer   *)
(* bytes than asked sets failbit (and eofbit); seekg clears eofbit only, so *)
(* after a short read every later seekg and read fails and tellg is -1.     *)

OpenStream(path) == [path |-> path, fail |-> ~fs[path].exists, pos |-> 0]

(* s.read(buf, n): the bytes found overwrite the head of buf, the rest of   *)
(* buf keeps what it held.                                                  *)
StreamRead(s, buf, n) ==
    IF s.fail THEN [s |-> s, buf |-> buf]
    ELSE LET f == fs[s.path].bytes
             got == Max(0, Min(n, Len(f) - s.pos))
         IN [s |-> [s EXCEPT !.pos = @ + got, !.fail = (got < n)],
             buf |-> SubSeq(f, s.pos + 1, s.pos + got) \o SubSeq(buf, got + 1, n)]

Seekg(s, p) == IF s.fail THEN s ELSE [s EXCEPT !.pos = p]
SeekEnd(s) == IF s.fail THEN s ELSE [s EXCEPT !.pos = Len(fs[s.path].bytes)]
Tellg(s) == IF s.fail THEN 0 - 1 ELSE s.pos

check_file_exists(filename) == fs[filename].exists

(* memcmp(header, signature, 7) != 0, lines 61 and 90 *)
header_differs(hdr, sig) == hdr # sig

(* A size test that lets longer files through. *)
length_at_least(len) == len < FileLen

(* length != 6363, lines 72 and 101 *)
length_differs(len) == len # FileLen

(* input_file1, input_file2 before main constructs them *)
ClosedStream == [path |-> PathA, fail |-> TRUE, pos |-> 0]

----------------------------------------------------------------------------
(* Start of a run *)

ArgCounts == {3, 4}

Configs ==
    {g \in [a : BankKinds, b : BankKinds, old : BOOLEAN, h : GarbageHeaders,
            in2 : {PathA, PathB}, out : Paths, argc : ArgCounts] :
        \* the second bank is looked at only once the first has passed
        /\ (g.a \notin ValidKinds => g.b = <<"valid", 0>>)
        \* the stack garbage matters only to a header read that comes short
        /\ (g.h # Fill(HeaderLen, 0) => g.a \in LenKinds \/ g.b \in LenKinds)
        /\ (g.in2 = PathA => g.b = <<"valid", 0>> /\ g.a \in ValidKinds)
        /\ (g.old => g.out = PathOut)
        /\ (g.argc # 4 => g = [a |-> <<"valid", 0>>, b |-> <<"valid", 0>>,
                               old |-> FALSE, h |-> Fill(HeaderLen, 0),
                               in2 |-> PathB, out |-> PathOut, argc |-> g.argc])}

Init ==
    \E g \in Configs :
        /\ given = g
        /\ argc = g.argc
        /\ argv = <<PathA, g.in2, g.out>>
        /\ fs = InitialFs(g)
        /\ input_file1 = ClosedStream
        /\ input_file2 = ClosedStream
        /\ header = g.h
        /\ length = 0
        /\ answer = ""
        /\ data1 = <<>>
        /\ data2 = <<>>
        /\ cout = <<>>
        /\ status = <<>>
        /\ pc = "args"
        /\ written = 0

Exit(code, msg) ==
    /\ pc' = "exited"
    /\ status' = <<code>>
    /\ cout' = cout \o msg

(* main, lines 29-45: the usage check *)
CheckArgs ==
    /\ pc = "args"
    /\ IF argc # 4
       THEN Exit(EXIT_FAILURE, <<"usage">>)
       ELSE /\ pc' = "open1"
            /\ UNCHANGED <<status, cout>>
    /\ UNCHANGED <<argc, argv, fs, input_file1, input_file2, header, length,
                   answer, data1, data2, written, given>>

(* main, lines 47-54: open bank A, stop if it cannot be found *)
OpenBank1 ==
    /\ pc = "open1"
    /\ input_file1' = OpenStream(argv[1])
    /\ IF ~check_file_exists(argv[1])
       THEN Exit(EXIT_FAILURE, <<"not found 1">>)
       ELSE /\ pc' = "header1"
            /\ UNCHANGED <<status, cout>>
    /\ UNCHANGED <<argc, argv, fs, input_file2, header, length, answer,
                   data1, data2, written, given>>

(* main, lines 56-64: read 7 bytes, compare with the bank A signature *)
CheckHeader1 ==
    /\ pc = "header1"
    /\ LET r == StreamRead(input_file1, header, HeaderLen)
       IN /\ input_file1' = r.s
          /\ header' = r.buf
          /\ IF header_differs(r.buf, SigA)
             THEN Exit(EXIT_FAILURE, <<"bad header 1">>)
             ELSE /\ pc' = "length1"
                  /\ UNCHANGED <<status, cout>>
    /\ UNCHANGED <<argc, argv, fs, input_file2, length, answer,
                   data1, data2, written, given>>

(* main, lines 66-75: the length of bank A must be 6363 *)
CheckLength1 ==
    /\ pc = "length1"
    /\ LET atEnd == SeekEnd(input_file1)
           len == Tellg(atEnd)
       IN /\ length' = len
          /\ input_file1' = Seekg(atEnd, 0)
          /\ IF length_differs(len)
             THEN Exit(EXIT_FAILURE, <<"bad size 1">>)
             ELSE /\ pc' = "open2"
                  /\ UNCHANGED <<status, cout>>
    /\ UNCHANGED <<argc, argv, fs, input_file2, header, answer,
                   data1, data2, written, given>>

(* main, lines 77-84: open bank B, stop if it cannot be found *)
OpenBank2 ==
    /\ pc = "open2"
    /\ input_file2' = OpenStream(argv[2])
    /\ IF ~check_file_exists(argv[2])
       THEN Exit(EXIT_FAILURE, <<"not found 2">>)
       ELSE /\ pc' = "header2"
            /\ UNCHANGED <<status, cout>>
    /\ UNCHANGED <<argc, argv, fs, input_file1, header, length, answer,
                   data1, data2, written, given>>

(* main, lines 86-93: read 7 bytes into the same array, compare with the   *)
(* bank B signature                                                        *)
CheckHeader2 ==
    /\ pc = "header2"
    /\ LET r == StreamRead(input_file2, header, HeaderLen)
       IN /\ input_file2' = r.s
          /\ header' = r.buf
          /\ IF header_differs(r.buf, SigB)
             THEN Exit(EXIT_FAILURE, <<"bad header 2">>)
             ELSE /\ pc' = "length2"
                  /\ UNCHANGED <<status, cout>>
    /\ UNCHANGED <<argc, argv, fs, input_file1, length, answer,
                   data1, data2, written, given>>

(* main, lines 95-104: the length of bank B must be 6363 *)
CheckLength2 ==
    /\ pc = "length2"
    /\ LET atEnd == SeekEnd(input_file2)
           len == Tellg(atEnd)
       IN /\ length' = len
          /\ input_file2' = Seekg(atEnd, 0)
          /\ IF length_differs(len)
             THEN Exit(EXIT_FAILURE, <<"bad size 2">>)
             ELSE /\ pc' = "check_output"
                  /\ UNCHANGED <<status, cout>>
    /\ UNCHANGED <<argc, argv, fs, input_file1, header, answer,
                   data1, data2, written, given>>

(* The words the user may type at the prompt ("" is end of input). *)
Answers == {"Y", "y", "N", "n", "yes", ""}

(* An answer test that takes any word starting like "yes". *)
affirmative_word(a) == a \in {"Y", "y", "yes"}

(* answer == "Y" || answer == "y", line 235 *)
affirmative(a) == a = "Y" \/ a = "y"

(* check_output_file, lines 229-245 (called at main line 107): if the       *)
(* output path can be opened for reading, ask; on "Y" or "y" an ofstream    *)
(* opened with ios::trunc empties the file, on anything else the run exits. *)
check_output_file ==
    /\ pc = "check_output"
    /\ IF fs[argv[3]].exists
       THEN \E a \in Answers :
              /\ answer' = a
              /\ IF affirmative(a)
                 THEN /\ fs' = [fs EXCEPT ![argv[3]] = File(<<>>)]
                      /\ cout' = cout \o <<"exists?", "wiped">>
                      /\ pc' = "read"
                      /\ UNCHANGED status
                 ELSE /\ Exit(EXIT_FAILURE, <<"exists?", "aborting">>)
                      /\ UNCHANGED fs
       ELSE /\ pc' = "read"
            /\ UNCHANGED <<fs, answer, cout, status>>
    /\ UNCHANGED <<argc, argv, input_file1, input_file2, header, length,
                   data1, data2, written, given>>

(* One iteration of the loop of read_files, lines 137-149: seek both       *)
(* streams, read 128 bytes of each into a fresh (uninitialized: g1, g2)     *)
(* local array, append the whole array to the vector whether or not the     *)
(* read filled it, advance both positions by 131.                           *)
read_step(st, g1, g2) ==
    LET r1 == StreamRead(Seekg(st.file1, st.pos1), Fill(PacketLen, g1), PacketLen)
        r2 == StreamRead(Seekg(st.file2, st.pos2), Fill(PacketLen, g2), PacketLen)
    IN [file1 |-> r1.s, file2 |-> r2.s,
        data1 |-> st.data1 \o r1.buf,
        data2 |-> st.data2 \o r2.buf,
        pos1 |-> st.pos1 + PacketStride,
        pos2 |-> st.pos2 + PacketStride]

(* read_files, line 136: iterations lo .. hi - 1 of the for loop, in that   *)
(* order: the first half of them, then the second half on the state the     *)
(* first half leaves.                                                       *)
RECURSIVE read_loop(_, _, _, _, _)
read_loop(lo, hi, st, g1, g2) ==
    IF hi <= lo THEN st
    ELSE IF hi = lo + 1 THEN read_step(st, g1, g2)
    ELSE LET mid == (lo + hi) \div 2
         IN The({read_loop(mid, hi, half, g1, g2) :
                    half \in {read_loop(lo, mid, st, g1, g2)}})

(* read_files, lines 128-151, called at main line 111.  The close() calls *)
(* of lines 114-115 change nothing the run looks at afterwards.          *)
read_files ==
    /\ pc = "read"
    /\ \E g1 \in GarbageBytes, g2 \in GarbageBytes :
         LET r == read_loop(0, NumPackets,
                            [file1 |-> input_file1, file2 |-> input_file2,
                             data1 |-> data1, data2 |-> data2,
                             pos1 |-> FirstPacket, pos2 |-> FirstPacket],
                            g1, g2)
         IN /\ data1' = r.data1
            /\ data2' = r.data2
            /\ input_file1' = r.file1
            /\ input_file2' = r.file2
    /\ pc' = "reorganize"
    /\ UNCHANGED <<argc, argv, fs, header, length, answer, cout, status,
                   written, given>>

(* data[i] of a vector of the given size; an index at or past the end is    *)
(* undefined behaviour and yields whatever byte g lies there.               *)
Elem(d, i, g) == IF i < Len(d) THEN At(d, i) ELSE g
Store(d, i, v) == IF i < Len(d) THEN Put(d, i, v) ELSE d

(* ((low & 0x0F) << 4) | (high & 0x0F), lines 184-185 *)
merged_byte(high_byte, low_byte) == ((low_byte % 16) * 16) + (high_byte % 16)

(* An iteration whose zero store lands one slot further, on a byte the    *)
(* next iteration has not read yet.                                        *)
loop_body_zero_ahead(d, i, g) ==
    LET m == merged_byte(Elem(d, i, g), Elem(d, i + 1, g))
    IN Store(Store(d, i \div 2, m), (i \div 2) + 2, 0)

(* One iteration of the loop of reorganize_data, lines 176-191, on one of   *)
(* the two vectors: both reads first, then the two stores, in place.        *)
loop_body(d, i, g) ==
    LET high_byte == Elem(d, i, g)
        low_byte == Elem(d, i + 1, g)
        m == merged_byte(high_byte, low_byte)
    IN Store(Store(d, i \div 2, m), (i \div 2) + 1, 0)

(* Iterations i = 2*lo, 2*lo + 2, ..., 2*(hi - 1) of the for loop, line 175, *)
(* in that order: the first half of them, then the second half on the       *)
(* vector the first half leaves.                                            *)
RECURSIVE reorganize_loop(_, _, _, _)
reorganize_loop(d, lo, hi, g) ==
    IF hi <= lo THEN d
    ELSE IF hi = lo + 1 THEN loop_body(d, 2 * lo, g)
    ELSE LET mid == (lo + hi) \div 2
         IN The({reorganize_loop(half, mid, hi, g) :
                    half \in {reorganize_loop(d, lo, mid, g)}})

(* data.resize(data.size() / 2), lines 195-196 *)
resize_half(d) == SubSeq(d, 1, Len(d) \div 2)

(* The loop and the resize on one vector; the loop runs while i < size. *)
denibble(d, g) == resize_half(reorganize_loop(d, 0, (Len(d) + 1) \div 2, g))

(* A size test whose second message also returns. *)
size_check_strict(n1, n2) ==
    IF n1 # n2 THEN [msg |-> <<"different sizes">>, run_loop |-> FALSE]
    ELSE IF n1 # ExpectedData
         THEN [msg |-> <<"not the expected size">>, run_loop |-> FALSE]
         ELSE [msg |-> <<>>, run_loop |-> TRUE]

(* The two size tests of reorganize_data, lines 155-165: different sizes    *)
(* print a message and return; a common size other than 6144 prints a       *)
(* message and falls through to the loop.                                   *)
size_check(n1, n2) ==
    IF n1 # n2 THEN [msg |-> <<"different sizes">>, run_loop |-> FALSE]
    ELSE IF n1 # ExpectedData
         THEN [msg |-> <<"not the expected size">>, run_loop |-> TRUE]
         ELSE [msg |-> <<>>, run_loop |-> TRUE]

(* reorganize_data, lines 153-197 (main line 119); whatever it does, main   *)
(* goes on to write_to_file.  With an odd size the last iteration reads     *)
(* data[size] (and, for size 1, stores to data[1]): undefined behaviour,    *)
(* which either stops the process or goes on with the byte found there.     *)
reorganize_data ==
    /\ pc = "reorganize"
    /\ LET c == size_check(Len(data1), Len(data2))
           odd == c.run_loop /\ Len(data1) % 2 = 1
       IN \E outcome \in (IF odd THEN {"go", "crash"} ELSE {"go"}),
             g \in (IF odd THEN GarbageBytes ELSE {0}) :
            /\ cout' = cout \o c.msg
            /\ IF outcome = "crash"
               THEN /\ pc' = "crashed"
                    /\ UNCHANGED <<data1, data2>>
               ELSE /\ data1' = IF c.run_loop THEN denibble(data1, g) ELSE data1
                    /\ data2' = IF c.run_loop THEN denibble(data2, g) ELSE data2
                    /\ pc' = "write"
    /\ UNCHANGED <<argc, argv, fs, input_file1, input_file2, header, length,
                   answer, status, written, given>>

(* The output operations of write_to_file: the open and the four writes. *)
NumOutOps == 5

(* What the file holds after the first n chunks were written. *)
RECURSIVE Concat(_, _)
Concat(chunks, n) == IF n = 0 THEN <<>> ELSE Concat(chunks, n - 1) \o chunks[n]

(* write_to_file, lines 199-222 (main line 121): open the output for        *)
(* writing (which creates or empties it), write the tag, bank 1, the        *)
(* separator, bank 2.  No result of any operation is looked at: when the    *)
(* open or a write fails (ok < 5 operations succeed) the stream goes bad,   *)
(* the later writes do nothing and the function returns as usual.           *)
write_to_file ==
    /\ pc = "write"
    /\ \E ok \in 0..NumOutOps :
         /\ written' = ok
         /\ fs' = IF ok = 0 THEN fs
                  ELSE [fs EXCEPT ![argv[3]] =
                          File(Concat(<<sciPatchHeader, data1, bankSeparator, data2>>,
                                      ok - 1))]
    /\ pc' = "finish"
    /\ UNCHANGED <<argc, argv, input_file1, input_file2, header, length,
                   answer, data1, data2, cout, status, given>>

(* main, lines 123-125: the success message and return 0 *)
Finish ==
    /\ pc = "finish"
    /\ Exit(EXIT_SUCCESS, <<"created successfully">>)
    /\ UNCHANGED <<argc, argv, fs, input_file1, input_file2, header, length,
                   answer, data1, data2, written, given>>

Next ==
    \/ CheckArgs
    \/ OpenBank1
    \/ CheckHeader1
    \/ CheckLength1
    \/ OpenBank2
    \/ CheckHeader2
    \/ CheckLength2
    \/ check_output_file
    \/ read_files
    \/ reorganize_data
    \/ write_to_file
    \/ Finish

Spec == Init /\ [][Next]_vars


----------------------------------------------------------------------------
(* The second half of main (lines 118-125) on vectors of any small size:   *)
(* reorganize_data, write_to_file and the success message, started on two  *)
(* vectors drawn from short byte sequences of equal or different lengths.  *)

PipeBytes1 == {63, 162, 129}
PipeBytes2 == {63, 162}
SeqsUpTo(S, n) == UNION {[1..k -> S] : k \in 0..n}

InitPipe ==
    \E d1 \in SeqsUpTo(PipeBytes1, MaxLen), d2 \in SeqsUpTo(PipeBytes2, MaxLen) :
        /\ given = [d1 |-> d1, d2 |-> d2]
        /\ argc = 4
        /\ argv = <<PathA, PathB, PathOut>>
        /\ fs = [p \in Paths |-> NoFile]
        /\ input_file1 = ClosedStream
        /\ input_file2 = ClosedStream
        /\ header = SigB
        /\ length = FileLen
        /\ answer = ""
        /\ data1 = d1
        /\ data2 = d2
        /\ cout = <<>>
        /\ status = <<>>
        /\ pc = "reorganize"
        /\ written = 0

NextPipe ==
    \/ reorganize_data
    \/ write_to_file
    \/ Finish

SpecPipe == InitPipe /\ [][NextPipe]_vars

----------------------------------------------------------------------------
(* Definitions the properties are stated with *)

Started == InitialFs(given)

ValidBank(f, sig) ==
    /\ f.exists
    /\ Len(f.bytes) = 6363
    /\ SubSeq(f.bytes, 1, 7) = sig

BothValid ==
    /\ ValidBank(Started[argv[1]], <<240, 67, 117, 0, 0, 0, 0>>)
    /\ ValidBank(Started[argv[2]], <<240, 67, 117, 0, 0, 0, 1>>)

Said(m) == \E k \in 1..Len(cout) : cout[k] = m

(* Byte k (0-based) of the result is ((in[2k+1] & 0x0F) << 4) | (in[2k] & 0x0F). *)
NibbleMerge(in) ==
    [k \in 1..(Len(in) \div 2) |-> ((in[2 * k] % 16) * 16) + (in[2 * k - 1] % 16)]

(* Byte 128*p + j of the result is byte 0x4C + 131*p + j of the bank. *)
Windows(bytes) ==
    [k \in 1..6144 |-> bytes[76 + 131 * ((k - 1) \div 128) + ((k - 1) % 128) + 1]]

EqualEven == Len(given.d1) = Len(given.d2) /\ Len(given.d1) % 2 = 0

----------------------------------------------------------------------------
(* C1: when the open and the four writes of the emitter have succeeded,    *)
(* the output file is exactly 89 00, the 3072 bytes of bank 1, AB CD, the  *)
(* 3072 bytes of bank 2: 6148 bytes, 89 00 at offsets 0 and 1, AB CD at    *)
(* offsets 0xC02 and 0xC03, whatever the payload; and when the output path *)
(* is not one of the inputs the two banks are the nibble-merged packet     *)
(* windows of the two input files.                                         *)
C1_OutputLayout ==
    (pc \in {"finish", "exited"} /\ written = 5) =>
        LET o == fs[argv[3]].bytes
        IN /\ fs[argv[3]].exists
           /\ Len(data1) = 3072
           /\ Len(data2) = 3072
           /\ o = <<137, 0>> \o data1 \o <<171, 205>> \o data2
           /\ Len(o) = 6148
           /\ o[1] = 137 /\ o[2] = 0
           /\ o[3075] = 171 /\ o[3076] = 205
           /\ (argv[3] = PathOut =>
                 /\ data1 = NibbleMerge(Windows(Started[argv[1]].bytes))
                 /\ data2 = NibbleMerge(Windows(Started[argv[2]].bytes)))

C1_Witness ==
    /\ pc = "exited"
    /\ written = 5
    /\ status = <<0>>
    /\ Len(fs[argv[3]].bytes) = 6148
    /\ given.a = <<"valid", 1>>

(* C2: the prompt, the extraction, the transcoding and the writes are      *)
(* reached only when both inputs exist, begin with their signature and are *)
(* 6363 bytes long; in every other run no file is created or changed, the  *)
(* run never leaves the validation steps and it exits with a status other  *)
(* than 0.                                                                 *)
C2_ValidationGuards ==
    /\ (\/ pc \in {"check_output", "read", "reorganize", "write", "finish", "crashed"}
        \/ Said("exists?")
        \/ written > 0
        \/ data1 # <<>>
        \/ data2 # <<>>) => BothValid
    /\ ~BothValid =>
        /\ fs = Started
        /\ pc \in {"args", "open1", "header1", "length1", "open2", "header2",
                   "length2", "exited"}
        /\ (pc = "exited" => status = <<1>>)

C2_Witness ==
    /\ pc = "exited"
    /\ status = <<1>>
    /\ given.a \in ValidKinds
    /\ given.b = <<"len", 6364>>
    /\ given.old
    /\ fs = Started

(* C3: for two vectors of equal, even length the loop and the resize leave *)
(* in each vector the nibble merge of its ORIGINAL pairs, in pair order    *)
(* (3F, A2 gives 2F).                                                      *)
C3_InPlaceMerge ==
    (EqualEven /\ pc \in {"write", "finish", "exited"}) =>
        /\ data1 = NibbleMerge(given.d1)
        /\ data2 = NibbleMerge(given.d2)

C3_Witness ==
    /\ pc = "write"
    /\ given.d1 = <<63, 162, 129, 63>>
    /\ given.d2 = <<162, 63, 63, 162>>
    /\ data1 = <<47, 241>>

(* C4: for a bank file that is 6363 bytes long when read_files runs, the   *)
(* vector holds 6144 bytes, byte 128*p + j being file byte                 *)
(* 0x4C + 131*p + j, and the stream never went past the end of the file.   *)
C4_Extraction ==
    pc = "reorganize" =>
        /\ Len(fs[argv[1]].bytes) = 6363 =>
              /\ Len(data1) = 6144
              /\ data1 = Windows(fs[argv[1]].bytes)
              /\ ~input_file1.fail
              /\ input_file1.pos <= 6363
        /\ Len(fs[argv[2]].bytes) = 6363 =>
              /\ Len(data2) = 6144
              /\ data2 = Windows(fs[argv[2]].bytes)
              /\ ~input_file2.fail
              /\ input_file2.pos <= 6363

C4_Witness ==
    /\ pc = "reorganize"
    /\ Len(fs[argv[1]].bytes) = 6363
    /\ Len(fs[argv[2]].bytes) = 6363
    /\ data1[129] = fs[argv[1]].bytes[208]
    /\ given.b = <<"valid", 1>>

C6_UnexpectedLengthGoesOn ==
    (EqualEven /\ Len(given.d1) # 6144) =>
        /\ pc \in {"reorganize", "write", "finish", "exited"}
        /\ pc # "reorganize" =>
              /\ cout[1] = "not the expected size"
              /\ Len(data1) * 2 = Len(given.d1)
              /\ Len(data2) * 2 = Len(given.d2)
              /\ \A k \in 1..Len(data1) :
                    /\ data1[k] % 16 = given.d1[2 * k - 1] % 16
                    /\ data1[k] \div 16 = given.d1[2 * k] % 16
                    /\ data2[k] % 16 = given.d2[2 * k - 1] % 16
                    /\ data2[k] \div 16 = given.d2[2 * k] % 16
        /\ pc = "exited" =>
              /\ status = <<0>>
              /\ cout = <<"not the expected size", "created successfully">>
              /\ (written = 5 =>
                    fs[argv[3]].bytes = <<137, 0>> \o data1 \o <<171, 205>> \o data2)

C6_Witness ==
    /\ pc = "exited"
    /\ given.d1 = <<63, 162>>
    /\ given.d2 = <<162, 162>>
    /\ cout[1] = "not the expected size"
    /\ fs[argv[3]].bytes = <<137, 0, 47, 171, 205, 34>>

(* C7: once the user has answered the prompt with something other than "Y" *)
(* or "y" the run has exited with status 1, nothing was extracted,         *)
(* transcoded or written and every file is as it was; and no file changes  *)
(* before the answer.                                                      *)
C7_DeclineKeepsFile ==
    /\ (Said("exists?") /\ answer \notin {"Y", "y"}) =>
          /\ pc = "exited"
          /\ status = <<1>>
          /\ data1 = <<>>
          /\ data2 = <<>>
          /\ written = 0
          /\ fs[argv[3]] = Started[argv[3]]
          /\ fs = Started
    /\ pc \in {"args", "open1", "header1", "length1", "open2", "header2",
               "length2", "check_output"} => fs = Started

C7_Witness ==
    /\ Said("exists?")
    /\ answer = "yes"
    /\ given.old
    /\ fs[argv[3]].bytes = <<1, 2, 3>>
    /\ pc = "exited"

(* C8 (as claimed): read_files returns normally only when every one of the *)
(* 48 windows lay inside the bank file, and the vector holds file bytes    *)
(* only.                                                                   *)
C8_TruncatedReadFails ==
    pc = "reorganize" =>
        /\ Len(fs[argv[1]].bytes) >= 76 + 131 * 47 + 128
        /\ Len(fs[argv[2]].bytes) >= 76 + 131 * 47 + 128
        /\ data1 = Windows(fs[argv[1]].bytes)
        /\ data2 = Windows(fs[argv[2]].bytes)

(* C9 (as claimed): the run exits with status 0 and the success message    *)
(* only when the open and the four writes succeeded and the output holds   *)
(* 6148 bytes.                                                             *)
C9_WriteErrorReported ==
    (pc = "exited" /\ (status = <<0>> \/ Said("created successfully"))) =>
        /\ written = 5
        /\ Len(fs[argv[3]].bytes) = 6148

(* C10 (as claimed): from validation to extraction the program leaves both *)
(* input files as the Validator saw them, and what is extracted are the    *)
(* windows of those files.                                                 *)
C10_InputsUntouched ==
    /\ pc \in {"check_output", "read", "reorganize"} =>
          /\ fs[argv[1]] = Started[argv[1]]
          /\ fs[argv[2]] = Started[argv[2]]
    /\ pc = "reorganize" =>
          /\ data1 = Windows(Started[argv[1]].bytes)
          /\ data2 = Windows(Started[argv[2]].bytes)

====
